---- MODULE Spec2Model ----
(***************************************************************************)
(* nslocalizedstring2swiftgen.py: a run of main() over a project tree.     *)
(*                                                                         *)
(* Text is a sequence of lexical tokens.  The literals the two regular     *)
(* expressions name (NSLocalizedString, comment:, tableName:, the quote,   *)
(* the comma, the parentheses, white space) are one token each; every      *)
(* other character is a token of its own.  Keys are sequences of           *)
(* characters, so that the naming transform works on characters.           *)
(***************************************************************************)
EXTENDS Integers, Sequences, FiniteSets, TLC

VARIABLES
    project_exists,    \* Path(args.project_path).exists()
    args,              \* [localizable, dry_run, verbose]
    strings,           \* the Localizable.strings candidates, by location
    src,               \* what each file of the tree held before the first run
    disk,              \* the current content of each file of the tree
    pc,                \* position of main()
    localizable_path,  \* main's local
    key_mappings,      \* main's local: key -> reference string
    swift_files,       \* main's local: list of paths
    idx,               \* number of files of swift_files already processed
    results,           \* the (replacements, unmatched) pair returned per file
    report,            \* the per-file lines printed
    total_replacements,
    total_unmatched,
    files_modified,
    exit_code,         \* -1 while main has not returned
    reads,             \* source files opened for reading by this run
    writes,            \* source files opened for writing by this run
    disk0,             \* the tree's content when this run started
    run,               \* "first" or "second" invocation of the tool on the tree
    prev               \* what the first invocation left, once it is over

vars == <<project_exists, args, strings, src, disk, pc, localizable_path,
          key_mappings, swift_files, idx, results, report, total_replacements,
          total_unmatched, files_modified, exit_code, reads, writes, disk0,
          run, prev>>

----------------------------------------------------------------------------
(* Bounds of the explored inputs. *)

MaxKeyLen == 3      \* characters in a resource key
MaxCalls == 3       \* NSLocalizedString calls in one source file, nested ones included
MaxDirDepth == 2    \* directory levels below the project root
MaxTreeFiles == 2   \* files in a project tree

----------------------------------------------------------------------------
(* Tokens. *)

NS  == "NSLocalizedString"
LP  == "("
RP  == ")"
Q   == "\""
CM  == ","
CMT == "comment:"
TBL == "tableName:"
SP  == " "
NL  == "\n"
EQ  == "="
SEMI == ";"
L10N == "L10n."
INTERP == "\\("

IsSpace(t) == t \in {SP, NL}

\* The token at position i, "" past either end.
At(s, i) == IF i \in 1..Len(s) THEN s[i] ELSE ""

RECURSIVE SkipWs(_, _)
\* \s* : the first position at or after i that holds no white space.
SkipWs(s, i) == IF IsSpace(At(s, i)) THEN SkipWs(s, i + 1) ELSE i

RECURSIVE ScanTo(_, _, _)
\* [^t]* : the first position at or after i that holds t, Len(s)+1 if none.
ScanTo(s, i, t) ==
    IF i > Len(s) \/ s[i] = t THEN i ELSE ScanTo(s, i + 1, t)

RECURSIVE Concat(_)
Concat(ss) == IF ss = <<>> THEN <<>> ELSE Head(ss) \o Concat(Tail(ss))

RECURSIVE Count(_, _)
Count(t, s) ==
    IF s = <<>> THEN 0 ELSE (IF Head(s) = t THEN 1 ELSE 0) + Count(t, Tail(s))

RECURSIVE SumSeq(_)
SumSeq(ns) == IF ns = <<>> THEN 0 ELSE Head(ns) + SumSeq(Tail(ns))

Range(f) == {f[x] : x \in DOMAIN f}

----------------------------------------------------------------------------
(* str.lower(), str.capitalize() and snake_to_camel_case. *)

LowerOf == [c \in {"A", "B", "V"} |-> CASE c = "A" -> "a" [] c = "B" -> "b" [] c = "V" -> "v"]
UpperOf == [c \in {"a", "b", "v"} |-> CASE c = "a" -> "A" [] c = "b" -> "B" [] c = "v" -> "V"]

LowerChar(c) == IF c \in DOMAIN LowerOf THEN LowerOf[c] ELSE c
UpperChar(c) == IF c \in DOMAIN UpperOf THEN UpperOf[c] ELSE c

\* str.lower()
Lower(w) == [i \in 1..Len(w) |-> LowerChar(w[i])]

\* str.capitalize(): first character upper-cased, all the others lower-cased
Capitalize(w) == IF w = <<>> THEN <<>> ELSE <<UpperChar(w[1])>> \o Lower(Tail(w))

RECURSIVE Split(_, _)
\* str.split(sep): the components between the separators, empty ones kept
Split(w, sep) ==
    LET j == ScanTo(w, 1, sep)
    IN  IF j > Len(w) THEN <<w>>
        ELSE <<SubSeq(w, 1, j - 1)>> \o Split(SubSeq(w, j + 1, Len(w)), sep)

\* A bug the transform could have: later components joined as they are.
snake_to_camel_case_join(snake_str) ==
    IF \A i \in 1..Len(snake_str) : snake_str[i] # "_"
    THEN IF snake_str = <<>> THEN snake_str
         ELSE <<LowerChar(snake_str[1])>> \o Tail(snake_str)
    ELSE LET components == Split(snake_str, "_")
         IN  Lower(components[1]) \o Concat(Tail(components))

snake_to_camel_case(snake_str) ==
    IF \A i \in 1..Len(snake_str) : snake_str[i] # "_"
    THEN IF snake_str = <<>> THEN snake_str
         ELSE <<LowerChar(snake_str[1])>> \o Tail(snake_str)
    ELSE LET components == Split(snake_str, "_")
         IN  Lower(components[1]) \o
             Concat([i \in 1..(Len(components) - 1) |-> Capitalize(components[i + 1])])

----------------------------------------------------------------------------
(* parse_localizable_strings. *)

\* One attempt of "([^"]+)"\s*=\s*"[^"]*"\s*; at position i.
EntryAt(s, i) ==
    LET kq == ScanTo(s, i + 1, Q)
        e1 == SkipWs(s, kq + 1)
        v1 == SkipWs(s, e1 + 1)
        vq == ScanTo(s, v1 + 1, Q)
        sc == SkipWs(s, vq + 1)
    IN  IF /\ At(s, i) = Q
           /\ kq <= Len(s) /\ kq > i + 1
           /\ At(s, e1) = EQ
           /\ At(s, v1) = Q
           /\ vq <= Len(s)
           /\ At(s, sc) = SEMI
        THEN [ok |-> TRUE, end |-> sc + 1, key |-> SubSeq(s, i + 1, kq - 1)]
        ELSE [ok |-> FALSE, end |-> i + 1, key |-> <<>>]

RECURSIVE FindEntries(_, _)
\* re.findall: the keys of the non-overlapping matches, left to right.
FindEntries(s, i) ==
    IF i > Len(s) THEN <<>>
    ELSE LET m == EntryAt(s, i)
         IN  IF m.ok THEN <<m.key>> \o FindEntries(s, m.end)
             ELSE FindEntries(s, i + 1)

\* The text of a resource file, from its lines.
StringsLine(l) ==
    CASE l.kind = "entry"    -> <<Q>> \o l.key \o <<Q, SP, EQ, SP, Q, "v", Q, SEMI, NL>>
      [] l.kind = "nosemi"   -> <<Q>> \o l.key \o <<Q, SP, EQ, SP, Q, "v", Q, NL>>
      [] l.kind = "emptykey" -> <<Q, Q, SP, EQ, SP, Q, "v", Q, SEMI, NL>>
      [] l.kind = "comment"  -> <<"/", "/", SP>> \o l.key \o <<NL>>

StringsText(lines) == Concat([i \in 1..Len(lines) |-> StringsLine(lines[i])])

parse_localizable_strings(file) ==
    IF ~file.exists THEN <<>>
    ELSE LET matches == FindEntries(StringsText(file.lines), 1)
         IN  [key \in Range(matches) |-> <<L10N>> \o snake_to_camel_case(key)]

----------------------------------------------------------------------------
(* replace_nslocalizedstring_in_file. *)

RECURSIVE CallArgs(_, _, _)
\* The rest of a call after the key's closing quote, from position p:
\*   (?:\s*,\s*(?:bundle|tableName):\s*[^,]+)*\s*,\s*comment:\s*"[^"]*"\s*\)
\* when general, \s*,\s*comment:\s*"[^"]*"\s*\) otherwise.  The position after
\* the match, 0 when there is none.  [^,]+ runs to the next comma, which the
\* pattern then requires, so no shorter choice of it can match.
CallArgs(s, p, general) ==
    LET c1 == SkipWs(s, p)
        a1 == SkipWs(s, c1 + 1)
        nc == ScanTo(s, a1 + 1, CM)
        q1 == SkipWs(s, a1 + 1)
        q2 == ScanTo(s, q1 + 1, Q)
        rp == SkipWs(s, q2 + 1)
    IN  IF At(s, c1) # CM THEN 0
        ELSE IF general /\ At(s, a1) = TBL
        THEN IF nc > a1 + 1 /\ nc <= Len(s) THEN CallArgs(s, nc, general) ELSE 0
        ELSE IF At(s, a1) = CMT /\ At(s, q1) = Q /\ q2 <= Len(s) /\ At(s, rp) = RP
        THEN rp + 1
        ELSE 0

\* One attempt of a pattern at position i:
\*   NSLocalizedString\s*\(\s*"([^"]+)" followed by CallArgs.
MatchAt(s, i, general) ==
    LET lp == SkipWs(s, i + 1)
        kb == SkipWs(s, lp + 1)
        kq == ScanTo(s, kb + 1, Q)
        e  == IF At(s, i) = NS /\ At(s, lp) = LP /\ At(s, kb) = Q
                 /\ kq <= Len(s) /\ kq > kb + 1
              THEN CallArgs(s, kq + 1, general) ELSE 0
    IN  IF e > 0
        THEN [ok |-> TRUE, start |-> i, end |-> e, key |-> SubSeq(s, kb + 1, kq - 1)]
        ELSE [ok |-> FALSE, start |-> i, end |-> i + 1, key |-> <<>>]

RECURSIVE FindCalls(_, _, _)
\* The matches re.sub visits: leftmost first, non-overlapping.
FindCalls(s, i, general) ==
    IF i > Len(s) THEN <<>>
    ELSE LET m == MatchAt(s, i, general)
         IN  IF m.ok THEN <<m>> \o FindCalls(s, m.end, general)
             ELSE FindCalls(s, i + 1, general)

\* A bug replacement_func could have: a call with no mapping is dropped.
replacement_func_drops(s, m, mappings) ==
    IF m.key \in DOMAIN mappings
    THEN [text |-> mappings[m.key], made |-> 1, unmatched |-> {}]
    ELSE [text |-> <<>>, made |-> 0, unmatched |-> {m.key}]

\* A bug replacement_func could have: the reference is the quoted key again,
\* inside the call it replaces.
replacement_func_keeps_call(s, m, mappings) ==
    IF m.key \in DOMAIN mappings
    THEN [text |-> SubSeq(s, m.start, m.end - 1), made |-> 1, unmatched |-> {}]
    ELSE [text |-> SubSeq(s, m.start, m.end - 1), made |-> 0, unmatched |-> {m.key}]

\* What replacement_func returns for match m of text s, and what it adds to
\* replacements_made and unmatched_keys.
replacement_func(s, m, mappings) ==
    IF m.key \in DOMAIN mappings
    THEN [text |-> mappings[m.key], made |-> 1, unmatched |-> {}]
    ELSE [text |-> SubSeq(s, m.start, m.end - 1), made |-> 0, unmatched |-> {m.key}]

RECURSIVE SubFrom(_, _, _, _)
\* The text re.sub builds from position i on, ms the matches left to visit.
SubFrom(s, i, ms, mappings) ==
    IF ms = <<>> THEN SubSeq(s, i, Len(s))
    ELSE SubSeq(s, i, Head(ms).start - 1)
         \o replacement_func(s, Head(ms), mappings).text
         \o SubFrom(s, Head(ms).end, Tail(ms), mappings)

\* What re.sub leaves, ms the matches it visited: the new text, and what
\* the calls of replacement_func added to the two counters.
SubOf(s, ms, mappings) ==
    [content   |-> SubFrom(s, 1, ms, mappings),
     made      |-> SumSeq([j \in 1..Len(ms) |-> replacement_func(s, ms[j], mappings).made]),
     unmatched |-> UNION {replacement_func(s, ms[j], mappings).unmatched : j \in 1..Len(ms)}]

\* re.sub(pattern, replacement_func, content)
Sub(s, general, mappings) == SubOf(s, FindCalls(s, 1, general), mappings)

\* A bug the write condition could have: dry_run is not looked at.
ShouldWrite_ignores_dry_run(dry_run, content, original_content) ==
    content # original_content

\* A bug the write condition could have: every file is written back.
ShouldWrite_always(dry_run, content, original_content) ==
    ~dry_run

\* if not dry_run and content != original_content
ShouldWrite(dry_run, content, original_content) ==
    ~dry_run /\ content # original_content

\* A bug the handler of an undecodable file could have: it counts as a failure.
DecodeFailure_raises == [replacements |-> 0, unmatched |-> 0, raised |-> TRUE]

\* except UnicodeDecodeError: return 0, 0
DecodeFailure == [replacements |-> 0, unmatched |-> 0, raised |-> FALSE]

\* Lines 78-82: the write and the returned pair, pass1 and pass2 what the
\* two re.sub calls left.
Returned(original_content, pass1, pass2, dry_run) ==
    [replacements |-> pass1.made + pass2.made,
     unmatched    |-> Cardinality(pass1.unmatched \cup pass2.unmatched),
     raised       |-> FALSE,
     written      |-> ShouldWrite(dry_run, pass2.content, original_content),
     content      |-> pass2.content]

\* Line 76: the simplified pattern, over what the general pattern left.
SecondPass(original_content, pass1, mappings, dry_run) ==
    Returned(original_content, pass1, Sub(pass1.content, FALSE, mappings), dry_run)

\* The call replace_nslocalizedstring_in_file(file_path, key_mappings, dry_run)
\* on a file that holds `file`: what it returns, whether it writes, and what.
replace_nslocalizedstring_in_file(file, mappings, dry_run) ==
    IF ~file.decodable
    THEN [replacements |-> DecodeFailure.replacements,
          unmatched    |-> DecodeFailure.unmatched,
          raised       |-> DecodeFailure.raised,
          written      |-> FALSE,
          content      |-> file.text]
    ELSE SecondPass(file.text, Sub(file.text, TRUE, mappings), mappings, dry_run)

----------------------------------------------------------------------------
(* Source files: a sequence of calls with text around them.  A call has a  *)
(* key, an optional tableName: argument (a literal or another call) and a  *)
(* comment (empty, or a string that interpolates another call).            *)

FileKeys == {<<"a">>, <<"b">>}

FlatCalls ==
    {[key |-> k, tkind |-> t, tsub |-> <<>>, ckind |-> "empty", csub |-> <<>>] :
        k \in FileKeys, t \in {"none", "lit"}}

RECURSIVE CallsOfSize(_)
\* The calls that hold n calls in all, themselves included.
CallsOfSize(n) ==
    IF n = 1 THEN FlatCalls
    ELSE UNION {
        {[key |-> k, tkind |-> t.kind, tsub |-> t.sub, ckind |-> c.kind, csub |-> c.sub] :
            k \in FileKeys,
            t \in (IF i = 0 THEN {[kind |-> "none", sub |-> <<>>], [kind |-> "lit", sub |-> <<>>]}
                   ELSE {[kind |-> "call", sub |-> <<x>>] : x \in CallsOfSize(i)}),
            c \in (IF n - 1 - i = 0 THEN {[kind |-> "empty", sub |-> <<>>]}
                   ELSE {[kind |-> "call", sub |-> <<x>>] : x \in CallsOfSize(n - 1 - i)})} :
        i \in 0..(n - 1)}

RECURSIVE DocsOfSize(_)
\* The sequences of calls that hold n calls in all.
DocsOfSize(n) ==
    IF n = 0 THEN {<<>>}
    ELSE UNION {{<<c>> \o d : c \in CallsOfSize(i), d \in DocsOfSize(n - i)} : i \in 1..n}

Docs == UNION {DocsOfSize(n) : n \in 0..MaxCalls}

RECURSIVE RenderCall(_)
RenderCall(c) ==
    <<NS, LP, Q>> \o c.key \o <<Q>>
    \o (CASE c.tkind = "none" -> <<>>
          [] c.tkind = "lit"  -> <<CM, SP, TBL, SP, Q, "t", Q>>
          [] c.tkind = "call" -> <<CM, SP, TBL, SP>> \o RenderCall(c.tsub[1]))
    \o <<CM, SP, CMT, SP, Q>>
    \o (CASE c.ckind = "empty" -> <<>>
          [] c.ckind = "call"  -> <<INTERP>> \o RenderCall(c.csub[1]) \o <<RP>>)
    \o <<Q, RP>>

\* The text of a source file: "x" before, between and after its calls.
Render(doc) ==
    <<"x">> \o Concat([i \in 1..Len(doc) |-> RenderCall(doc[i]) \o <<NL, "x">>])

IsFlat(doc) == \A i \in 1..Len(doc) : doc[i].tkind # "call" /\ doc[i].ckind # "call"

----------------------------------------------------------------------------
(* find_swift_files.  A tree is the set of its files, each a directory     *)
(* path below the root and a name; a name is a sequence of segments, so    *)
(* that str.endswith has something to look at.  os.walk lists a            *)
(* directory's entries in the order the file system gives them: here in    *)
(* the order of DirOrder and FileOrder.                                    *)

Denylist == {".build", "build", "DerivedData", ".git", "Pods"}

DirOrder == <<"Pods", "Sources">>
FileOrder == <<<<"A", ".swift">>, <<".swift">>, <<"A", ".swift", ".bak">>>>

\* file.endswith('.swift')
EndsWithSwift(name) == name # <<>> /\ name[Len(name)] = ".swift"

IsPrefix(p, q) == Len(p) <= Len(q) /\ SubSeq(q, 1, Len(p)) = p

\* The subdirectories os.walk lists for directory root.
SubDirs(tree, root) ==
    {f.dir[Len(root) + 1] : f \in {g \in tree : Len(g.dir) > Len(root) /\ IsPrefix(root, g.dir)}}

\* A bug the pruning could have: dirs rebound instead of assigned in place,
\* so that os.walk descends everywhere.
Prune_rebinds(dirs) == dirs

\* dirs[:] = [d for d in dirs if d not in [...]]
Prune(dirs) == SelectSeq(dirs, LAMBDA d : d \notin Denylist)

RECURSIVE Walk(_, _)
\* The .swift files os.walk reaches from directory root, top down.
Walk(tree, root) ==
    LET dirs  == Prune(SelectSeq(DirOrder, LAMBDA d : d \in SubDirs(tree, root)))
        files == SelectSeq(FileOrder, LAMBDA n : [dir |-> root, name |-> n] \in tree)
        here  == SelectSeq(files, EndsWithSwift)
    IN  [i \in 1..Len(here) |-> [dir |-> root, name |-> here[i]]]
        \o Concat([i \in 1..Len(dirs) |-> Walk(tree, root \o <<dirs[i]>>)])

find_swift_files(tree) == Walk(tree, <<>>)

----------------------------------------------------------------------------
(* main. *)

ProbeOrder == <<"Resources", "Root", "Supporting Files">>
Locations == {"Resources", "Root", "Supporting Files", "Explicit"}

\* A bug the probing could have: no break, so that the last existing path wins.
FirstExisting_no_break ==
    LET found == SelectSeq(ProbeOrder, LAMBDA l : strings[l].exists)
    IN  IF found = <<>> THEN "" ELSE found[Len(found)]

\* The first of possible_paths that exists, "" when none does.
FirstExisting ==
    LET found == SelectSeq(ProbeOrder, LAMBDA l : strings[l].exists)
    IN  IF found = <<>> THEN "" ELSE found[1]

\* A bug the summary could have: every reported file counts as modified.
CountsAsModified_reported(replacements, unmatched, verbose) ==
    IF replacements > 0 \/ (verbose /\ unmatched > 0) THEN 1 ELSE 0

\* What one file adds to files_modified (lines 161 and 168).
CountsAsModified(replacements, unmatched, verbose) ==
    IF (replacements > 0 \/ (verbose /\ unmatched > 0)) /\ replacements > 0 THEN 1 ELSE 0

\* Whether the file gets a line in the report (line 161).
Reported(replacements, unmatched, verbose) ==
    replacements > 0 \/ (verbose /\ unmatched > 0)

NoRun == [dry_run |-> FALSE, exit_code |-> -1, report |-> <<>>, results |-> <<>>,
          total_replacements |-> 0, total_unmatched |-> 0, files_modified |-> 0,
          processed |-> 0]

\* Lines 109-139: the project path and the resource file.
Main_Args ==
    /\ pc = "args"
    /\ IF ~project_exists
       THEN /\ pc' = "done" /\ exit_code' = 1 /\ UNCHANGED localizable_path
       ELSE IF args.localizable
       THEN /\ pc' = "parse" /\ localizable_path' = "Explicit" /\ UNCHANGED exit_code
       ELSE IF FirstExisting = ""
       THEN /\ pc' = "done" /\ exit_code' = 1 /\ UNCHANGED localizable_path
       ELSE /\ pc' = "parse" /\ localizable_path' = FirstExisting /\ UNCHANGED exit_code
    /\ UNCHANGED <<project_exists, args, strings, src, disk, key_mappings, swift_files,
                   idx, results, report, total_replacements, total_unmatched,
                   files_modified, reads, writes, disk0, run, prev>>

\* Lines 142-145.
Main_Parse ==
    /\ pc = "parse"
    /\ key_mappings' = parse_localizable_strings(strings[localizable_path])
    /\ IF DOMAIN key_mappings' = {}
       THEN pc' = "done" /\ exit_code' = 1
       ELSE pc' = "find" /\ UNCHANGED exit_code
    /\ UNCHANGED <<project_exists, args, strings, src, disk, localizable_path, swift_files,
                   idx, results, report, total_replacements, total_unmatched,
                   files_modified, reads, writes, disk0, run, prev>>

\* Lines 148-156.
Main_Find ==
    /\ pc = "find"
    /\ swift_files' = find_swift_files(DOMAIN disk)
    /\ total_replacements' = 0
    /\ total_unmatched' = 0
    /\ files_modified' = 0
    /\ pc' = "loop"
    /\ UNCHANGED <<project_exists, args, strings, src, disk, localizable_path, key_mappings,
                   idx, results, report, exit_code, reads, writes, disk0, run, prev>>

\* The body of the loop for file_path, r what the call of line 159 did.
LoopBody(file_path, r) ==
    /\ reads' = reads \cup {file_path}
    /\ writes' = IF r.written THEN writes \cup {file_path} ELSE writes
    /\ disk' = IF r.written THEN [disk EXCEPT ![file_path].text = r.content] ELSE disk
    /\ IF r.raised
       THEN /\ pc' = "done" /\ exit_code' = 1
            /\ UNCHANGED <<idx, results, report, total_replacements,
                           total_unmatched, files_modified>>
       ELSE /\ results' = Append(results, [file |-> file_path, replacements |-> r.replacements,
                                           unmatched |-> r.unmatched])
            /\ report' = IF Reported(r.replacements, r.unmatched, args.verbose)
                         THEN Append(report, [file |-> file_path,
                                              replacements |-> r.replacements,
                                              unmatched |-> r.unmatched])
                         ELSE report
            /\ files_modified' = files_modified
                  + CountsAsModified(r.replacements, r.unmatched, args.verbose)
            /\ total_replacements' = total_replacements + r.replacements
            /\ total_unmatched' = total_unmatched + r.unmatched
            /\ idx' = idx + 1
            /\ UNCHANGED <<pc, exit_code>>

\* Lines 158-172: one turn of the loop over swift_files.
Main_ProcessFile ==
    /\ pc = "loop"
    /\ idx < Len(swift_files)
    /\ LoopBody(swift_files[idx + 1],
                replace_nslocalizedstring_in_file(disk[swift_files[idx + 1]], key_mappings,
                                                  args.dry_run))
    /\ UNCHANGED <<project_exists, args, strings, src, localizable_path, key_mappings,
                   swift_files, disk0, run, prev>>

\* Lines 174-185: the summary, and main returns 0.
Main_Summary ==
    /\ pc = "loop"
    /\ idx = Len(swift_files)
    /\ pc' = "done"
    /\ exit_code' = 0
    /\ UNCHANGED <<project_exists, args, strings, src, disk, localizable_path, key_mappings,
                   swift_files, idx, results, report, total_replacements, total_unmatched,
                   files_modified, reads, writes, disk0, run, prev>>

\* Lines 187-188: the tool is started once more on the tree it left, with
\* the same arguments but for --dry-run.
Rerun ==
    /\ pc = "done"
    /\ run = "first"
    /\ \E d \in BOOLEAN : args' = [args EXCEPT !.dry_run = d]
    /\ prev' = [dry_run |-> args.dry_run, exit_code |-> exit_code, report |-> report,
                results |-> results, total_replacements |-> total_replacements,
                total_unmatched |-> total_unmatched, files_modified |-> files_modified,
                processed |-> Len(swift_files)]
    /\ run' = "second"
    /\ pc' = "args"
    /\ localizable_path' = ""
    /\ key_mappings' = <<>>
    /\ swift_files' = <<>>
    /\ idx' = 0
    /\ results' = <<>>
    /\ report' = <<>>
    /\ total_replacements' = 0
    /\ total_unmatched' = 0
    /\ files_modified' = 0
    /\ exit_code' = -1
    /\ reads' = {}
    /\ writes' = {}
    /\ disk0' = disk
    /\ UNCHANGED <<project_exists, strings, src, disk>>

Next ==
    \/ Main_Args
    \/ Main_Parse
    \/ Main_Find
    \/ Main_ProcessFile
    \/ Main_Summary
    \/ Rerun

----------------------------------------------------------------------------
(* Initial states: what the tool is started on. *)

Entry(k) == [kind |-> "entry", key |-> k]
Missing == [exists |-> FALSE, lines |-> <<>>]
File(lines) == [exists |-> TRUE, lines |-> lines]
Text(doc) == [decodable |-> TRUE, doc |-> doc]
Undecodable == [decodable |-> FALSE, doc |-> <<>>]
Simple(k) == [key |-> k, tkind |-> "none", tsub |-> <<>>, ckind |-> "empty", csub |-> <<>>]
Path(d, n) == [dir |-> d, name |-> n]

\* What open(file_path).read() finds in a file that was given as f.
OnDisk(f) == [decodable |-> f.decodable, text |-> IF f.decodable THEN Render(f.doc) ELSE <<>>]

\* The resource file of the runs that are not about it: key a and key a_b.
PlainStrings ==
    [l \in Locations |-> IF l = "Resources" THEN File(<<Entry(<<"a">>), Entry(<<"a", "_", "b">>)>>)
                         ELSE Missing]

InitMain ==
    /\ pc = "args"
    /\ localizable_path = ""
    /\ key_mappings = <<>>
    /\ swift_files = <<>>
    /\ idx = 0
    /\ results = <<>>
    /\ report = <<>>
    /\ total_replacements = 0
    /\ total_unmatched = 0
    /\ files_modified = 0
    /\ exit_code = -1
    /\ reads = {}
    /\ writes = {}
    /\ run = "first"
    /\ prev = NoRun
    /\ disk = [f \in DOMAIN src |-> OnDisk(src[f])]
    /\ disk0 = disk

\* One source file, every arrangement of up to MaxCalls calls in it.
InitContent ==
    /\ project_exists = TRUE
    /\ \E d, v \in BOOLEAN : args = [localizable |-> FALSE, dry_run |-> d, verbose |-> v]
    /\ strings = PlainStrings
    /\ \E doc \in Docs : src = (Path(<<>>, <<"A", ".swift">>) :> Text(doc))
    /\ InitMain

SpecContent == InitContent /\ [][Next]_vars

\* Every tree of up to MaxTreeFiles files, MaxDirDepth directories deep; each
\* file holds one call whose key has a mapping.
DirPaths == UNION {[1..n -> Range(DirOrder)] : n \in 0..MaxDirDepth}
AllPaths == {Path(d, n) : d \in DirPaths, n \in Range(FileOrder)}

RECURSIVE TreesOfSize(_)
TreesOfSize(n) ==
    IF n = 0 THEN {{}}
    ELSE {t \cup {f} : t \in TreesOfSize(n - 1), f \in AllPaths}

Trees == {t \in TreesOfSize(MaxTreeFiles) : t # {}}

InitTree ==
    /\ project_exists = TRUE
    /\ \E d \in BOOLEAN : args = [localizable |-> FALSE, dry_run |-> d, verbose |-> FALSE]
    /\ strings = PlainStrings
    /\ \E t \in Trees : src = [f \in t |-> Text(<<Simple(<<"a">>)>>)]
    /\ InitMain

SpecTree == InitTree /\ [][Next]_vars

\* Several files side by side, each drawn from a palette of contents.
FilePaths == <<Path(<<>>, <<"A", ".swift">>), Path(<<"Sources">>, <<"A", ".swift">>),
               Path(<<>>, <<".swift">>), Path(<<"Sources">>, <<".swift">>)>>

Nested(k, t, inner) ==
    [key |-> k, tkind |-> t, tsub |-> <<>>, ckind |-> "call", csub |-> <<inner>>]

ContentPalette ==
    {Undecodable,
     Text(<<>>),
     Text(<<Simple(<<"a">>)>>),
     Text(<<Simple(<<"b">>)>>),
     Text(<<Simple(<<"a">>), Simple(<<"b">>), Simple(<<"a">>)>>),
     Text(<<Nested(<<"a">>, "none", Simple(<<"a">>))>>)}

NumFiles == IF MaxTreeFiles < Len(FilePaths) THEN MaxTreeFiles ELSE Len(FilePaths)

InitFiles ==
    /\ project_exists = TRUE
    /\ \E d, v \in BOOLEAN : args = [localizable |-> FALSE, dry_run |-> d, verbose |-> v]
    /\ strings = PlainStrings
    /\ src \in [{FilePaths[i] : i \in 1..NumFiles} -> ContentPalette]
    /\ InitMain

SpecFiles == InitFiles /\ [][Next]_vars

\* The project path, --localizable and the resource files vary.
StringsPalette ==
    {Missing,
     File(<<>>),
     File(<<[kind |-> "nosemi", key |-> <<"a">>], [kind |-> "emptykey", key |-> <<>>]>>),
     File(<<Entry(<<"a">>)>>),
     File(<<[kind |-> "comment", key |-> <<"a">>], Entry(<<"b">>),
            [kind |-> "nosemi", key |-> <<"a">>]>>)}

InitArgs ==
    /\ project_exists \in BOOLEAN
    /\ \E l, d \in BOOLEAN : args = [localizable |-> l, dry_run |-> d, verbose |-> FALSE]
    /\ strings \in [Locations -> StringsPalette]
    /\ project_exists \/ \A l \in Range(ProbeOrder) : strings[l] = Missing
    /\ src = (Path(<<>>, <<"A", ".swift">>) :> Text(<<Simple(<<"a">>), Simple(<<"b">>)>>))
    /\ InitMain

SpecArgs == InitArgs /\ [][Next]_vars

\* The resource file holds two entries, their keys any of up to MaxKeyLen
\* characters.
KeyChars == {"a", "A", "_"}
Keys == UNION {[1..n -> KeyChars] : n \in 1..MaxKeyLen}

InitKeys ==
    /\ project_exists = TRUE
    /\ args = [localizable |-> FALSE, dry_run |-> FALSE, verbose |-> FALSE]
    /\ \E k1, k2 \in Keys :
          strings = [l \in Locations |-> IF l = "Resources" THEN File(<<Entry(k1), Entry(k2)>>)
                                         ELSE Missing]
    /\ src = (Path(<<>>, <<"A", ".swift">>) :> Text(<<Simple(<<"a">>), Simple(<<"a", "_", "a">>)>>))
    /\ InitMain

SpecKeys == InitKeys /\ [][Next]_vars

----------------------------------------------------------------------------
(* What a source file should become, read off its calls rather than off    *)
(* the patterns.                                                           *)

Mapped(doc, mappings) == {i \in 1..Len(doc) : doc[i].key \in DOMAIN mappings}

ExpectedText(doc, mappings) ==
    <<"x">> \o Concat([i \in 1..Len(doc) |->
                          (IF doc[i].key \in DOMAIN mappings THEN mappings[doc[i].key]
                           ELSE RenderCall(doc[i])) \o <<NL, "x">>])

ExpectedUnmatched(doc, mappings) ==
    {doc[i].key : i \in (1..Len(doc)) \ Mapped(doc, mappings)}

RECURSIVE Rewritten(_, _, _, _)
\* Text s from position i on, each of the calls ms replaced by its reference
\* when its key has one.
Rewritten(s, i, ms, mappings) ==
    IF ms = <<>> THEN SubSeq(s, i, Len(s))
    ELSE SubSeq(s, i, Head(ms).start - 1)
         \o (IF Head(ms).key \in DOMAIN mappings THEN mappings[Head(ms).key]
             ELSE SubSeq(s, Head(ms).start, Head(ms).end - 1))
         \o Rewritten(s, Head(ms).end, Tail(ms), mappings)

Processed == 1..Len(results)

----------------------------------------------------------------------------
(* Claims. *)

\* C1 as stated: in any file, the calls the general pattern recognizes in the
\* content read are each replaced by the reference of their key and counted
\* once, or left as they are and their key recorded, and nothing else changes.
C1_AsStated ==
    \A i \in Processed :
        LET f  == results[i].file
            s  == disk0[f].text
            ms == FindCalls(s, 1, TRUE)
        IN  (run = "first" /\ disk0[f].decodable) =>
               /\ results[i].replacements
                     = Cardinality({j \in 1..Len(ms) : ms[j].key \in DOMAIN key_mappings})
               /\ results[i].unmatched
                     = Cardinality({ms[j].key : j \in {n \in 1..Len(ms) :
                                                         ms[n].key \notin DOMAIN key_mappings}})
               /\ ~args.dry_run => disk[f].text = Rewritten(s, 1, ms, key_mappings)

\* C1, amended: in a file where no call sits inside another call's arguments,
\* every call whose key has a mapping is replaced by exactly that reference
\* and counted once, every other call is left as it was and its key is
\* recorded as unmatched, and the text around the calls is unchanged.
C1_FlatCallsRewritten ==
    \A i \in Processed :
        LET f == results[i].file
        IN  (run = "first" /\ src[f].decodable /\ IsFlat(src[f].doc)) =>
               /\ results[i].replacements = Cardinality(Mapped(src[f].doc, key_mappings))
               /\ results[i].unmatched = Cardinality(ExpectedUnmatched(src[f].doc, key_mappings))
               /\ ~args.dry_run => disk[f].text = ExpectedText(src[f].doc, key_mappings)

C1_Witness ==
    /\ run = "first" /\ pc = "done" /\ ~args.dry_run
    /\ \E i \in Processed :
          /\ IsFlat(src[results[i].file].doc)
          /\ results[i].replacements = 1
          /\ results[i].unmatched = 1
          /\ results[i].file \in writes

\* C3 as stated: after a pass that writes, a second pass over the same tree
\* makes no replacement and changes no file.
C3_AsStated ==
    (run = "second" /\ ~prev.dry_run /\ pc = "done") =>
        /\ total_replacements = 0
        /\ disk = disk0

\* C3, amended: after a pass that writes, a second pass makes no replacement
\* in, and does not change, any file in which no call sits inside another
\* call's arguments.
C3_FlatIdempotent ==
    \A i \in Processed :
        LET f == results[i].file
        IN  (run = "second" /\ ~prev.dry_run /\ src[f].decodable /\ IsFlat(src[f].doc)) =>
               /\ results[i].replacements = 0
               /\ disk[f] = disk0[f]
               /\ f \notin writes

C3_Witness ==
    /\ run = "second" /\ pc = "done" /\ ~prev.dry_run
    /\ prev.total_replacements > 0
    /\ \E i \in Processed : IsFlat(src[results[i].file].doc) /\ results[i].replacements = 0

\* C8: a file is written exactly when dry-run is off and the transformed
\* content differs from the content read; a file with no replacement is never
\* written; a file that is not written keeps its content.
C8_WriteOnlyIfChanged ==
    \A i \in Processed :
        LET f == results[i].file
        IN  /\ f \in writes <=> (~args.dry_run /\ results[i].replacements > 0)
            /\ f \in writes => disk[f] # disk0[f]
            /\ f \notin writes => disk[f] = disk0[f]
            /\ results[i].replacements = 0 => f \notin writes

C8_Witness ==
    /\ pc = "done" /\ ~args.dry_run
    /\ \E i \in Processed :
          results[i].replacements = 0 /\ results[i].unmatched > 0
          /\ results[i].file \notin writes

\* First character in upper case, the rest as it is.
UpperFirst(w) == IF w = <<>> THEN <<>> ELSE <<UpperChar(w[1])>> \o Tail(w)

RestUnchanged(key) ==
    LET components == Split(key, "_")
    IN  Lower(components[1]) \o
        Concat([i \in 1..(Len(components) - 1) |-> UpperFirst(components[i + 1])])

\* C2 as stated: a key that holds '_' becomes its first component in lower
\* case followed by each later component with its first character in upper
\* case and the rest of the component unchanged.
C2_AsStated ==
    \A key \in DOMAIN key_mappings :
        (\E i \in 1..Len(key) : key[i] = "_") =>
            key_mappings[key] = <<L10N>> \o RestUnchanged(key)

\* A key of lower-case letters, separated by single underscores.
IsLowerSnake(key) ==
    /\ key # <<>>
    /\ \A i \in 1..Len(key) : key[i] \in DOMAIN UpperOf \cup {"_"}
    /\ key[1] # "_" /\ key[Len(key)] # "_"
    /\ \A i \in 1..(Len(key) - 1) : ~(key[i] = "_" /\ key[i + 1] = "_")

\* C7 as stated: two distinct keys of the resource file never get the same
\* reference string.
C7_AsStated ==
    \A k1, k2 \in DOMAIN key_mappings :
        k1 # k2 => key_mappings[k1] # key_mappings[k2]

\* C7, amended: every key gets one reference string, L10n. followed by its
\* identifier, and two distinct keys that are both made of lower-case letters
\* separated by single underscores get distinct reference strings.
C7_LowerSnakeDistinct ==
    /\ \A key \in DOMAIN key_mappings :
          /\ key_mappings[key][1] = L10N
          /\ \A i \in 2..Len(key_mappings[key]) : key_mappings[key][i] \notin {L10N, "_"}
    /\ \A k1, k2 \in DOMAIN key_mappings :
          (k1 # k2 /\ IsLowerSnake(k1) /\ IsLowerSnake(k2)) =>
              key_mappings[k1] # key_mappings[k2]

C7_Witness ==
    /\ pc = "find"
    /\ \E k1, k2 \in DOMAIN key_mappings :
          /\ k1 # k2 /\ IsLowerSnake(k1) /\ IsLowerSnake(k2)
          /\ \E i \in 1..Len(k1) : k1[i] = "_"
          /\ Len(key_mappings[k1]) = Len(key_mappings[k2])

\* C4: a dry run leaves every file as it was, and reports what a run on the
\* same tree with the same mapping reports: the same per-file lines and
\* returned pairs, totals, files modified and files processed.
C4_DryRunSameCounts ==
    /\ args.dry_run => (disk = disk0 /\ writes = {})
    /\ (run = "second" /\ pc = "done" /\ prev.dry_run) =>
          /\ report = prev.report
          /\ results = prev.results
          /\ total_replacements = prev.total_replacements
          /\ total_unmatched = prev.total_unmatched
          /\ files_modified = prev.files_modified
          /\ Len(swift_files) = prev.processed
          /\ exit_code = prev.exit_code

C4_Witness ==
    /\ run = "second" /\ pc = "done" /\ prev.dry_run /\ ~args.dry_run
    /\ total_replacements > 0 /\ total_unmatched > 0
    /\ writes # {}
    /\ prev.files_modified > 0

\* The failures main gives up on (lines 110, 131 and 143), read off the
\* resource files' lines.
NoKeys(file) == ~file.exists \/ \A i \in 1..Len(file.lines) : file.lines[i].kind # "entry"

ExpectFailure ==
    \/ ~project_exists
    \/ /\ ~args.localizable
       /\ \A l \in Range(ProbeOrder) : ~strings[l].exists
    \/ /\ args.localizable
       /\ NoKeys(strings["Explicit"])
    \/ /\ ~args.localizable
       /\ \E n \in 1..Len(ProbeOrder) :
             /\ strings[ProbeOrder[n]].exists
             /\ \A m \in 1..(n - 1) : ~strings[ProbeOrder[m]].exists
             /\ NoKeys(strings[ProbeOrder[n]])

\* C5: main returns 1 exactly when the project path does not exist, no
\* resource file is found, or the resource file gives no key; it returns 0
\* otherwise; and when it returns 1 no source file was read or written.
C5_ExitCode ==
    pc = "done" =>
        /\ exit_code = (IF ExpectFailure THEN 1 ELSE 0)
        /\ exit_code = 1 => (reads = {} /\ writes = {} /\ disk = disk0)

C5_Witness ==
    /\ pc = "done" /\ exit_code = 1
    /\ project_exists /\ args.localizable
    /\ ~strings["Explicit"].exists
    /\ ~NoKeys(strings["Resources"])

\* The files find_swift_files should return: name ending in .swift, no
\* denylisted directory on the way down from the root.
Scannable(tree) ==
    {f \in tree : EndsWithSwift(f.name) /\ \A i \in 1..Len(f.dir) : f.dir[i] \notin Denylist}

\* C6: find_swift_files returns exactly the .swift files that have no
\* denylisted directory between the root and them, each once, and a run
\* reads and writes no other file.
C6_DenylistPruned ==
    /\ (pc = "loop" \/ (pc = "done" /\ exit_code = 0)) =>
          /\ Range(swift_files) = Scannable(DOMAIN disk)
          /\ Len(swift_files) = Cardinality(Scannable(DOMAIN disk))
    /\ reads \cup writes \subseteq Scannable(DOMAIN disk)
    /\ \A f \in DOMAIN disk \ Scannable(DOMAIN disk) : disk[f] = OnDisk(src[f])

C6_Witness ==
    /\ pc = "done" /\ exit_code = 0
    /\ writes # {}
    /\ \E f \in DOMAIN disk :
          /\ EndsWithSwift(f.name) /\ Len(f.dir) = 2 /\ f.dir[2] \in Denylist
          /\ f \notin reads

\* The processed files that could be decoded.
Decodable == {i \in Processed : disk0[results[i].file].decodable}

\* C9: a file that cannot be decoded returns (0, 0) and is left alone; the
\* run goes on over every other file, the totals are the sums over the files
\* that could be decoded, and main returns 0.

C9_UndecodableSkipped ==
    /\ \A i \in Processed \ Decodable :
          /\ results[i].replacements = 0 /\ results[i].unmatched = 0
          /\ disk[results[i].file] = disk0[results[i].file]
          /\ results[i].file \notin writes
    /\ (pc = "done" /\ (\E f \in Range(swift_files) : ~disk0[f].decodable)) =>
          /\ exit_code = 0
          /\ [i \in 1..Len(results) |-> results[i].file] = swift_files
          /\ total_replacements =
                SumSeq([i \in 1..Len(results) |->
                          IF i \in Decodable THEN results[i].replacements ELSE 0])
          /\ total_unmatched =
                SumSeq([i \in 1..Len(results) |->
                          IF i \in Decodable THEN results[i].unmatched ELSE 0])

C9_Witness ==
    /\ pc = "done" /\ exit_code = 0 /\ Len(results) >= 2
    /\ ~disk0[results[1].file].decodable
    /\ results[Len(results)].replacements > 0
    /\ results[Len(results)].file \in writes

\* C10: no call is counted twice (a file's count is at most the number of
\* calls that left it, and exactly that number, one new reference each, when
\* no call sits inside another); the total is the sum of the per-file counts;
\* and when dry-run is off 'Files modified' is the number of files rewritten.
C10_ExactAccounting ==
    /\ \A i \in Processed :
          LET f == results[i].file
              gone == Count(NS, disk0[f].text) - Count(NS, disk[f].text)
              refs == Count(L10N, disk[f].text) - Count(L10N, disk0[f].text)
          IN  (disk0[f].decodable /\ ~args.dry_run) =>
                 /\ results[i].replacements <= gone
                 /\ IsFlat(src[f].doc) => (results[i].replacements = gone /\ gone = refs)
    /\ (pc = "done" /\ exit_code = 0) =>
          /\ total_replacements = SumSeq([i \in 1..Len(results) |-> results[i].replacements])
          /\ total_unmatched = SumSeq([i \in 1..Len(results) |-> results[i].unmatched])
          /\ ~args.dry_run =>
                /\ files_modified = Cardinality(writes)
                /\ writes = {f \in DOMAIN disk : disk[f] # disk0[f]}

C10_Witness ==
    /\ pc = "done" /\ exit_code = 0 /\ ~args.dry_run /\ args.verbose
    /\ files_modified = 1
    /\ Len(report) = 2
    /\ \E i \in Processed : results[i].replacements = 2 /\ results[i].unmatched = 1

====
